---- MODULE Spec2Model ----
(***************************************************************************)
(* The concurrent messaging core of reee: a Supervisor registry, named     *)
(* Environments that broadcast the effects they receive, and Entities that *)
(* read the broadcasts of the Environments they joined.  Every Environment,*)
(* every Entity and the Supervisor is a task polled by the executor.       *)
(***************************************************************************)
EXTENDS Integers, Sequences, FiniteSets, TLC

(* ------------------------------ bounds -------------------------------- *)
\* Environment instances ever created (create_environment calls that succeed).
MaxEnv == 2
\* Entities ever created.
MaxEnt == 2
\* Successful submit_effect calls in one run.
MaxSubmit == 3
\* Successful submit_effect calls in one run of the two-Environment scenario.
MaxSubmitTwoEnv == 2
\* Successful submit_effect calls in one run of the calls scenario.
MaxSubmitCalls == 1
\* Submissions in the scenario of the pulls.
MaxSubmitPull == 2
\* Submissions while an Entity is deleted.
MaxSubmitEntity == 2
\* Listeners handed out by one Trigger.
MaxHandles == 3
\* Calls of pull on one Trigger.
MaxPulls == 2
\* Polls of one listener.
MaxPolls == 3
\* Largest ring in the counting of one poll.
MaxRing == 6
\* Most effects queued before the poll that is counted.
MaxQueued == 6
\* Largest value of num_received_effects before the poll that is counted.
MaxLoaded == 2
\* Capacity of the broadcast ring of every Environment (crate::constants).
BROADCAST_BUFFER_SIZE == 2

Names == {"X", "Y"}
EnvIds == 1..MaxEnv
EntIds == 1..MaxEnt

VARIABLES
    \* --- Supervisor (supervisor.rs, Inner) ---
    environments,   \* registry: name -> Environment instance (0: no connection)
    entities,       \* registry: the Entities with a connection
    sv_call,        \* the Supervisor call holding the `inner` mutex, if any
    sv_task,        \* the Supervisor future
    shutdown,       \* the cell of the Supervisor-wide shutdown trigger
    result,         \* the latest Supervisor call that returned, and what it returned
    \* --- Environment instances (environment.rs) ---
    env_name,       \* name of each instance ("-": not created)
    in_chan,        \* unbounded channel Supervisor -> Environment
    out_chan,       \* everything broadcast so far on the Environment's bus
    joined_entities,
    affecting_entities,
    drop_notifier,  \* the cell of the Environment's drop trigger
    env_num,        \* num_received_effects (atomic)
    env_task,       \* the Environment future
    env_poll,       \* locals of the running poll
    \* --- Entities (entity.rs) ---
    joined_environments,
    affected_environments,
    ent_num,        \* num_received_effects (atomic)
    ent_task,       \* the Entity future
    ent_poll,       \* locals of the running poll
    ent_term,       \* the cell of each Entity's own termination trigger
    \* --- a Trigger and its listeners (common/trigger.rs) ---
    trigger,        \* the watch cell: its value and its version
    handles,        \* the listeners handed out by get_handle, in order
    \* --- one Environment::poll with a ring of any size (environment.rs) ---
    counting,       \* the queue length, the half of the ring and the counters
    \* --- history ---
    submitted,      \* number of successful submit_effect calls per instance
    received        \* the effects each Entity read from each instance, in order

vars == <<environments, entities, sv_call, sv_task, shutdown, result,
          env_name, in_chan, out_chan, joined_entities, affecting_entities,
          drop_notifier, env_num, env_task, env_poll,
          joined_environments, affected_environments, ent_num, ent_task,
          ent_poll, ent_term, trigger, handles, counting, submitted,
          received>>

sv_vars == <<environments, entities, sv_call, sv_task, shutdown, result>>
trig_vars == <<trigger, handles>>
env_vars == <<env_name, in_chan, out_chan, joined_entities, affecting_entities,
              drop_notifier, env_num, env_task, env_poll>>
ent_vars == <<joined_environments, affected_environments, ent_num, ent_task,
              ent_poll, ent_term>>

(* ------------------------------ tasks --------------------------------- *)
\* A future on the executor.  pc: where the task is ("none": not spawned,
\* "idle": returned NotReady, "done": returned Ready); notified: the executor
\* has the task scheduled for a poll; registered: the task's Watcher holds the
\* task (AtomicTask::register was called); listening: the task's shutdown
\* listener holds the task (the watch receiver was polled).
NoTask == [pc |-> "none", notified |-> FALSE, registered |-> FALSE, listening |-> FALSE]

\* tokio's spawn schedules the first poll.
Spawned == [pc |-> "idle", notified |-> TRUE, registered |-> FALSE, listening |-> FALSE]

\* The executor schedules a task that is notified; a task that has completed,
\* or was never spawned, is not polled again.
Wake(t) == IF t.pc \in {"none", "done"} THEN t ELSE [t EXCEPT !.notified = TRUE]

\* A notify that reaches only a task that sleeps: one issued while the task
\* is in a poll is lost.
WatcherNotify_Asleep(t) == IF t.registered /\ t.pc = "idle" THEN Wake(t) ELSE t

\* Watcher: waker.task.notify() wakes the task the AtomicTask holds, if any.
WatcherNotify(t) == IF t.registered THEN Wake(t) ELSE t

\* watch::Sender::broadcast wakes the tasks of the receivers that were polled.
ListenerNotify(t) == IF t.listening THEN Wake(t) ELSE t

\* waker.task.register() at the head of a poll.
Register(t, pc) == [t EXCEPT !.pc = pc, !.notified = FALSE, !.registered = TRUE]

\* A tail that ends the future on any value the listener yields.
CheckShutdown_AnyValue(t) ==
    [t EXCEPT !.pc = "done", !.notified = FALSE, !.listening = TRUE]

\* The tail of every poll: poll the shutdown listener; Ready(true) ends the
\* future, anything else leaves the task registered with the listener.
CheckShutdown(t) ==
    IF shutdown THEN [t EXCEPT !.pc = "done", !.notified = FALSE, !.listening = TRUE]
    ELSE [t EXCEPT !.pc = "idle", !.listening = TRUE]

(* ------------------------------ helpers ------------------------------- *)
NoJoin == [env |-> 0, pos |-> 0, listening |-> FALSE]
NoCall == [op |-> "none", entity |-> 0, all |-> <<>>, names |-> <<>>,
           stage |-> "-", pos |-> 0]
NoEnvPoll == [num_received |-> 0, num |-> 0, effect |-> 0]
NoEntPoll == [num_effects |-> 0, num |-> 0, order |-> <<>>]

\* No poll is being counted.
NoCounting == [pc |-> "none", half |-> 0, queued |-> 0, loaded |-> 0, read |-> 0,
               num_received |-> 0, num |-> 0, half_wakes |-> 0, stored |-> 0]

\* What a call of the Supervisor returns: Ok(..) or Err(Error::App(..)).
Ok(op) == [op |-> op, ret |-> "Ok"]
App(op) == [op |-> op, ret |-> "App"]

Range(s) == {s[i] : i \in 1..Len(s)}

RECURSIVE SumOver(_, _)
SumOver(f, S) ==
    IF S = {} THEN 0
    ELSE LET x == CHOOSE y \in S : TRUE IN f[x] + SumOver(f, S \ {x})

NumCreatedEnvs == Cardinality({x \in EnvIds : env_name[x] # "-"})
NumCreatedEnts == Cardinality({e \in EntIds : ent_task[e].pc # "none"})

\* The locks a poll holds: an Environment poll holds out_chan and
\* joined_entities from its head to the end of its notify loop; an Entity poll
\* holds joined_environments during its drain and its term_sig scan.
EnvLocked(x) == env_task[x].pc \in {"drain", "broadcast"}
EntLocked(e) == ent_task[e].pc = "drain"

\* The positions of the readers of instance x's bus that have not been dropped.
ReaderPositions(x) ==
    {joined_environments[r[1]][r[2]].pos :
        r \in {q \in EntIds \X Names : joined_environments[q[1]][q[2]].env = x}}
    \cup (IF sv_call.op = "join" /\ sv_call.stage = "join"
             /\ environments[Head(sv_call.names)] = x
          THEN {sv_call.pos} ELSE {})

\* Bus::broadcast blocks while the slowest reader is a whole ring behind.
BusFull(x) ==
    \E p \in ReaderPositions(x) : Len(out_chan[x]) - p >= BROADCAST_BUFFER_SIZE

(* ------------------------------ Init ---------------------------------- *)
\* Node::new and Node::init: an empty registry, the Supervisor spawned.
Init ==
    /\ environments = [n \in Names |-> 0]
    /\ entities = {}
    /\ sv_call = NoCall
    /\ sv_task = Spawned
    /\ shutdown = FALSE
    /\ env_name = [x \in EnvIds |-> "-"]
    /\ in_chan = [x \in EnvIds |-> <<>>]
    /\ out_chan = [x \in EnvIds |-> <<>>]
    /\ joined_entities = [x \in EnvIds |-> <<>>]
    /\ affecting_entities = [x \in EnvIds |-> <<>>]
    /\ drop_notifier = [x \in EnvIds |-> FALSE]
    /\ env_num = [x \in EnvIds |-> 0]
    /\ env_task = [x \in EnvIds |-> NoTask]
    /\ env_poll = [x \in EnvIds |-> NoEnvPoll]
    /\ joined_environments = [e \in EntIds |-> [n \in Names |-> NoJoin]]
    /\ affected_environments = [e \in EntIds |-> [n \in Names |-> 0]]
    /\ ent_num = [e \in EntIds |-> 0]
    /\ ent_task = [e \in EntIds |-> NoTask]
    /\ ent_poll = [e \in EntIds |-> NoEntPoll]
    /\ ent_term = [e \in EntIds |-> FALSE]
    /\ result = Ok("new")
    /\ trigger = [value |-> FALSE, version |-> 1]
    /\ handles = <<>>
    /\ counting = NoCounting
    /\ submitted = [x \in EnvIds |-> 0]
    /\ received = [e \in EntIds |-> [x \in EnvIds |-> <<>>]]

(* --------------------------- Supervisor calls ------------------------- *)
\* Every call of the Supervisor takes the `inner` mutex first.
InnerFree == sv_call.op = "none"

\* A call that returns Err(Error::App(..)) before it has changed anything.
Rejected(op) ==
    /\ result' = App(op)
    /\ UNCHANGED <<environments, entities, sv_call, sv_task, shutdown, env_vars,
                   ent_vars, trig_vars, counting, submitted, received>>

\* create_environment that puts an Environment the name had before back in
\* the registry, if there is one.
CreateEnvironment_Revive(name) ==
    /\ InnerFree
    /\ environments[name] = 0
    /\ NumCreatedEnvs < MaxEnv
    /\ LET x == IF \E y \in EnvIds : env_name[y] = name
                THEN CHOOSE y \in EnvIds : env_name[y] = name
                ELSE NumCreatedEnvs + 1 IN
        /\ environments' = [environments EXCEPT ![name] = x]
        /\ env_name' = [env_name EXCEPT ![x] = name]
        /\ env_task' = [env_task EXCEPT ![x] =
                            IF env_name[x] = name THEN @ ELSE Spawned]
    /\ result' = Ok("create_environment")
    /\ UNCHANGED <<entities, sv_call, sv_task, shutdown, in_chan, out_chan,
                   joined_entities, affecting_entities, drop_notifier,
                   env_num, env_poll, ent_vars, submitted, received,
                   trig_vars, counting>>

\* Supervisor::create_environment (and Node::create_environment, which spawns
\* the Environment): a new instance under a name the registry does not hold.
CreateEnvironment(name) ==
    /\ InnerFree
    /\ environments[name] = 0
    /\ NumCreatedEnvs < MaxEnv
    /\ LET x == NumCreatedEnvs + 1 IN
        /\ environments' = [environments EXCEPT ![name] = x]
        /\ env_name' = [env_name EXCEPT ![x] = name]
        /\ env_task' = [env_task EXCEPT ![x] = Spawned]
    /\ result' = Ok("create_environment")
    /\ UNCHANGED <<entities, sv_call, sv_task, shutdown, in_chan, out_chan,
                   joined_entities, affecting_entities, drop_notifier,
                   env_num, env_poll, ent_vars, submitted, received,
                   trig_vars, counting>>

\* Supervisor::create_entity (and Node::create_entity, which spawns it).
CreateEntity ==
    /\ InnerFree
    /\ NumCreatedEnts < MaxEnt
    /\ LET e == NumCreatedEnts + 1 IN
        /\ entities' = entities \cup {e}
        /\ ent_task' = [ent_task EXCEPT ![e] = Spawned]
    /\ result' = Ok("create_entity")
    /\ UNCHANGED <<environments, sv_call, sv_task, shutdown, env_vars,
                   joined_environments, affected_environments, ent_num,
                   ent_poll, submitted, ent_term, received, trig_vars, counting>>

\* create_environment without the contains_key check: HashMap::insert puts the
\* new connection in the place of the one the name had.
CreateEnvironment_Overwrite(name) ==
    /\ InnerFree
    /\ environments[name] # 0
    /\ NumCreatedEnvs < MaxEnv
    /\ LET x == NumCreatedEnvs + 1 IN
        /\ environments' = [environments EXCEPT ![name] = x]
        /\ env_name' = [env_name EXCEPT ![x] = name]
        /\ env_task' = [env_task EXCEPT ![x] = Spawned]
    /\ result' = Ok("create_environment")
    /\ UNCHANGED <<entities, sv_call, sv_task, shutdown, in_chan, out_chan,
                   joined_entities, affecting_entities, drop_notifier,
                   env_num, env_poll, ent_vars, submitted, received,
                   trig_vars, counting>>

\* Supervisor::create_environment with a name the registry holds: the early
\* return.
CreateEnvironmentExisting(name) ==
    /\ InnerFree
    /\ environments[name] # 0
    /\ Rejected("create_environment")

\* submit_effect that sends and forgets to notify the Environment's waker.
SubmitEffect_NoNotify(name) ==
    /\ InnerFree
    /\ environments[name] # 0
    /\ LET x == environments[name] IN
        /\ in_chan' = [in_chan EXCEPT ![x] = Append(@, submitted[x] + 1)]
        /\ submitted' = [submitted EXCEPT ![x] = @ + 1]
    /\ result' = Ok("submit_effect")
    /\ UNCHANGED <<environments, entities, sv_call, sv_task, shutdown,
                   env_name, out_chan, joined_entities,
                   affecting_entities, drop_notifier, env_num, env_task,
                   env_poll, ent_vars, received, trig_vars, counting>>

\* submit_effect that notifies the waker of the first Environment that was
\* created under the name rather than the connection's.
SubmitEffect_FirstWaker(name) ==
    /\ InnerFree
    /\ environments[name] # 0
    /\ LET x == environments[name]
           w == CHOOSE y \in EnvIds :
                    /\ env_name[y] = name
                    /\ \A z \in EnvIds : env_name[z] = name => y <= z IN
        /\ in_chan' = [in_chan EXCEPT ![x] = Append(@, submitted[x] + 1)]
        /\ submitted' = [submitted EXCEPT ![x] = @ + 1]
        /\ env_task' = [env_task EXCEPT ![w] = WatcherNotify(@)]
    /\ result' = Ok("submit_effect")
    /\ UNCHANGED <<environments, entities, sv_call, sv_task, shutdown,
                   env_name, out_chan, joined_entities,
                   affecting_entities, drop_notifier, env_num, env_poll,
                   ent_vars, received, trig_vars, counting>>

\* Supervisor::submit_effect on a registered name: send on the connection's
\* sender, then notify the connection's waker.  The payload is the index of
\* the submission to that instance.
SubmitEffect(name) ==
    /\ InnerFree
    /\ environments[name] # 0
    /\ LET x == environments[name] IN
        /\ in_chan' = [in_chan EXCEPT ![x] = Append(@, submitted[x] + 1)]
        /\ submitted' = [submitted EXCEPT ![x] = @ + 1]
        /\ env_task' = [env_task EXCEPT ![x] = WatcherNotify(@)]
    /\ result' = Ok("submit_effect")
    /\ UNCHANGED <<environments, entities, sv_call, sv_task, shutdown,
                   env_name, out_chan, joined_entities,
                   affecting_entities, drop_notifier, env_num, env_poll,
                   ent_vars, received, trig_vars, counting>>

\* Trigger::pull on an Environment's drop notifier: the cell becomes true and
\* the task of every listener that was polled is woken.
PullDropNotifier(x) ==
    /\ drop_notifier' = [drop_notifier EXCEPT ![x] = TRUE]
    /\ ent_task' = [e \in EntIds |->
            IF \E n \in Names : /\ joined_environments[e][n].env = x
                                /\ joined_environments[e][n].listening
            THEN Wake(ent_task[e]) ELSE ent_task[e]]

\* delete_environment that removes the connection and forgets send_sig_term.
DeleteEnvironment_NoPull(name) ==
    /\ InnerFree
    /\ environments[name] # 0
    /\ environments' = [environments EXCEPT ![name] = 0]
    /\ result' = Ok("delete_environment")
    /\ UNCHANGED <<entities, sv_call, sv_task, shutdown, env_vars, ent_vars,
                   trig_vars, counting, submitted, received>>

\* Supervisor::delete_environment on a registered name: remove the connection,
\* then Environment::send_term_sig.
DeleteEnvironment(name) ==
    /\ InnerFree
    /\ environments[name] # 0
    /\ environments' = [environments EXCEPT ![name] = 0]
    /\ PullDropNotifier(environments[name])
    /\ result' = Ok("delete_environment")
    /\ UNCHANGED <<entities, sv_call, sv_task, shutdown, env_name, in_chan,
                   out_chan, joined_entities, affecting_entities, env_num,
                   env_task, env_poll, joined_environments,
                   affected_environments, ent_num, ent_poll, submitted,
                   ent_term, received, trig_vars, counting>>

\* Supervisor::delete_environment with a name the registry does not hold.
DeleteEnvironmentUnknown(name) ==
    /\ InnerFree
    /\ environments[name] = 0
    /\ Rejected("delete_environment")

\* submit_effect that finds no connection under the name and sends on the
\* channel of the deleted Environment that had the name.
SubmitEffect_Stale(name) ==
    /\ InnerFree
    /\ environments[name] = 0
    /\ \E x \in EnvIds :
        /\ env_name[x] = name
        /\ in_chan' = [in_chan EXCEPT ![x] = Append(@, submitted[x] + 1)]
        /\ submitted' = [submitted EXCEPT ![x] = @ + 1]
    /\ result' = Ok("submit_effect")
    /\ UNCHANGED <<environments, entities, sv_call, sv_task, shutdown,
                   env_name, out_chan, joined_entities, affecting_entities,
                   drop_notifier, env_num, env_task, env_poll, ent_vars,
                   trig_vars, counting, received>>

\* Supervisor::submit_effect with a name the registry does not hold.
SubmitEffectUnknown(name) ==
    /\ InnerFree
    /\ environments[name] = 0
    /\ Rejected("submit_effect")

\* Supervisor::delete_entity on a registered Entity: remove the connection,
\* then send_sig_term on the Entity, which pulls the Entity's own trigger.
DeleteEntity(e) ==
    /\ InnerFree
    /\ e \in entities
    /\ entities' = entities \ {e}
    /\ ent_term' = [ent_term EXCEPT ![e] = TRUE]
    /\ result' = Ok("delete_entity")
    /\ UNCHANGED <<environments, sv_call, sv_task, shutdown, env_vars,
                   joined_environments, affected_environments, ent_num,
                   ent_task, ent_poll, trig_vars, counting, submitted, received>>

\* Supervisor::delete_entity with a uuid the registry does not hold.
DeleteEntityUnknown(e) ==
    /\ InnerFree
    /\ e \notin entities
    /\ Rejected("delete_entity")

\* Node::shutdown whose pull wakes no task.
Shutdown_NoWake ==
    /\ InnerFree
    /\ ~shutdown
    /\ shutdown' = TRUE
    /\ UNCHANGED <<result, environments, entities, sv_call, sv_task, env_vars,
                   ent_vars, submitted, received, trig_vars, counting>>

\* Node::shutdown: pull the Supervisor-wide trigger; every task whose shutdown
\* listener was polled is woken.  The caller is the thread that makes the
\* Supervisor calls, so none is under way.
Shutdown ==
    /\ InnerFree
    /\ ~shutdown
    /\ shutdown' = TRUE
    /\ sv_task' = ListenerNotify(sv_task)
    /\ env_task' = [x \in EnvIds |-> ListenerNotify(env_task[x])]
    /\ ent_task' = [e \in EntIds |-> ListenerNotify(ent_task[e])]
    /\ UNCHANGED <<result, environments, entities, sv_call, env_name, in_chan,
                   out_chan, joined_entities, affecting_entities,
                   drop_notifier, env_num, env_poll, joined_environments,
                   affected_environments, ent_num, ent_poll, submitted,
                   ent_term, received, trig_vars, counting>>

\* The lists of names a join or affect call is made with.
NameLists == {<<n>> : n \in Names} \cup {<<n, m>> : n \in Names, m \in Names}

\* join_environments without the check of the names: the names the registry
\* holds are registered, the others are skipped.
JoinEnvironments_NoValidation(e, names) ==
    /\ InnerFree
    /\ ent_task[e].pc # "none"
    /\ \E i \in 1..Len(names) : environments[names[i]] = 0
    /\ \E i \in 1..Len(names) : environments[names[i]] # 0
    /\ LET n == names[CHOOSE i \in 1..Len(names) : environments[names[i]] # 0] IN
        sv_call' = [op |-> "join", entity |-> e, all |-> names, names |-> <<n>>,
                    stage |-> "add_rx", pos |-> 0]
    /\ UNCHANGED <<result, environments, entities, sv_task, shutdown, env_vars,
                   ent_vars, submitted, received, trig_vars, counting>>

\* Supervisor::join_environments and Supervisor::affect_environments with a
\* list that has a name the registry does not hold: the early return.
JoinEnvironmentsUnknown(e, names) ==
    /\ InnerFree
    /\ ent_task[e].pc # "none"
    /\ \E i \in 1..Len(names) : environments[names[i]] = 0
    /\ Rejected("join_environments")

AffectEnvironmentsUnknown(e, names) ==
    /\ InnerFree
    /\ ent_task[e].pc # "none"
    /\ \E i \in 1..Len(names) : environments[names[i]] = 0
    /\ Rejected("affect_environments")

\* Supervisor::join_environments, the head: take `inner`, check that every
\* name is registered.
JoinEnvironments(e, names) ==
    /\ InnerFree
    /\ ent_task[e].pc # "none"
    /\ \A i \in 1..Len(names) : environments[names[i]] # 0
    /\ sv_call' = [op |-> "join", entity |-> e, all |-> names, names |-> names,
                   stage |-> "add_rx", pos |-> 0]
    /\ UNCHANGED <<result, environments, entities, sv_task, shutdown, env_vars,
                   ent_vars, submitted, received, trig_vars, counting>>

\* An add_rx whose reader starts at the oldest effect of the broadcaster.
JoinAddRx_FromStart ==
    /\ sv_call.op = "join" /\ sv_call.stage = "add_rx"
    /\ LET x == environments[Head(sv_call.names)] IN
        /\ ~EnvLocked(x)
        /\ sv_call' = [sv_call EXCEPT !.stage = "join", !.pos = 0]
    /\ UNCHANGED <<result, environments, entities, sv_task, shutdown, env_vars,
                   ent_vars, submitted, received, trig_vars, counting>>

\* Environment::register_joining_entity, first statement: out_chan.add_rx()
\* under the out_chan mutex.  The new reader starts at the bus's tail.
JoinAddRx ==
    /\ sv_call.op = "join" /\ sv_call.stage = "add_rx"
    /\ LET x == environments[Head(sv_call.names)] IN
        /\ ~EnvLocked(x)
        /\ sv_call' = [sv_call EXCEPT !.stage = "join", !.pos = Len(out_chan[x])]
    /\ UNCHANGED <<result, environments, entities, sv_task, shutdown, env_vars,
                   ent_vars, submitted, received, trig_vars, counting>>

\* join_environment without the contains_key check: the entry of the name is
\* replaced and the registration goes on.
JoinEntity_NoCheck ==
    /\ sv_call.op = "join" /\ sv_call.stage = "join"
    /\ LET e == sv_call.entity
           n == Head(sv_call.names) IN
        /\ ~EntLocked(e)
        /\ sv_call' = [sv_call EXCEPT !.stage = "push", !.pos = 0]
        /\ joined_environments' = [joined_environments EXCEPT ![e][n] =
               [env |-> environments[n], pos |-> sv_call.pos,
                listening |-> FALSE]]
    /\ UNCHANGED <<result, environments, entities, sv_task, shutdown, env_vars,
                   affected_environments, ent_num, ent_task, ent_poll,
                   submitted, ent_term, received, trig_vars, counting>>

\* A registration loop that goes on to the next name when the Entity has
\* joined the name at hand.
JoinEntity_SkipJoined ==
    /\ sv_call.op = "join" /\ sv_call.stage = "join"
    /\ LET e == sv_call.entity
           n == Head(sv_call.names) IN
        /\ ~EntLocked(e)
        /\ IF joined_environments[e][n].env # 0
           THEN /\ sv_call' = IF Len(sv_call.names) = 1 THEN NoCall
                               ELSE [sv_call EXCEPT !.stage = "add_rx",
                                                    !.names = Tail(@)]
                /\ result' = IF Len(sv_call.names) = 1
                              THEN Ok("join_environments") ELSE result
                /\ UNCHANGED joined_environments
           ELSE /\ sv_call' = [sv_call EXCEPT !.stage = "push", !.pos = 0]
                /\ result' = result
                /\ joined_environments' = [joined_environments EXCEPT ![e][n] =
                       [env |-> environments[n], pos |-> sv_call.pos,
                        listening |-> FALSE]]
    /\ UNCHANGED <<environments, entities, sv_task, shutdown, env_vars,
                   affected_environments, ent_num, ent_task, ent_poll,
                   submitted, ent_term, received, trig_vars, counting>>

\* A join_environment that pushes the Entity on the Environment's list while
\* it holds the Entity's joined_environments mutex.
JoinEntity_HoldingPush ==
    /\ sv_call.op = "join" /\ sv_call.stage = "join"
    /\ LET e == sv_call.entity
           n == Head(sv_call.names)
           x == environments[n] IN
        /\ ~EntLocked(e)
        /\ IF joined_environments[e][n].env # 0
           THEN /\ sv_call' = NoCall
                /\ result' = App("join_environments")
                /\ UNCHANGED <<joined_environments, joined_entities>>
           ELSE /\ ~EnvLocked(x)
                /\ sv_call' = [sv_call EXCEPT !.stage = "push", !.pos = 0]
                /\ result' = result
                /\ joined_environments' = [joined_environments EXCEPT ![e][n] =
                       [env |-> x, pos |-> sv_call.pos, listening |-> FALSE]]
                /\ joined_entities' = [joined_entities EXCEPT ![x] = Append(@, e)]
    /\ UNCHANGED <<environments, entities, sv_task, shutdown, env_name,
                   in_chan, out_chan, affecting_entities, drop_notifier,
                   env_num, env_task, env_poll,
                   affected_environments, ent_num, ent_task, ent_poll,
                   submitted, ent_term, received, trig_vars, counting>>

\* Entity::join_environment under the joined_environments mutex: an error if
\* the name is a key already (the call returns, the new reader is dropped),
\* else the reader and the drop listener are stored under the name.
JoinEntity ==
    /\ sv_call.op = "join" /\ sv_call.stage = "join"
    /\ LET e == sv_call.entity
           n == Head(sv_call.names) IN
        /\ ~EntLocked(e)
        /\ IF joined_environments[e][n].env # 0
           THEN /\ sv_call' = NoCall
                /\ result' = App("join_environments")
                /\ UNCHANGED joined_environments
           ELSE /\ sv_call' = [sv_call EXCEPT !.stage = "push", !.pos = 0]
                /\ result' = result
                /\ joined_environments' = [joined_environments EXCEPT ![e][n] =
                       [env |-> environments[n], pos |-> sv_call.pos,
                        listening |-> FALSE]]
    /\ UNCHANGED <<environments, entities, sv_task, shutdown, env_vars,
                   affected_environments, ent_num, ent_task, ent_poll,
                   submitted, ent_term, received, trig_vars, counting>>

\* Environment::register_joining_entity, last statement: push the Entity and
\* its waker under the joined_entities mutex; then the next name of the call.
JoinPush ==
    /\ sv_call.op = "join" /\ sv_call.stage = "push"
    /\ LET x == environments[Head(sv_call.names)] IN
        /\ ~EnvLocked(x)
        /\ joined_entities' = [joined_entities EXCEPT ![x] = Append(@, sv_call.entity)]
    /\ sv_call' = IF Len(sv_call.names) = 1 THEN NoCall
                  ELSE [sv_call EXCEPT !.stage = "add_rx", !.names = Tail(@)]
    /\ result' = IF Len(sv_call.names) = 1 THEN Ok("join_environments") ELSE result
    /\ UNCHANGED <<environments, entities, sv_task, shutdown, env_name,
                   in_chan, out_chan, affecting_entities, drop_notifier,
                   env_num, env_task, env_poll, ent_vars, submitted,
                   received, trig_vars, counting>>

\* How many names of the list an affect call registers before it returns: it
\* stops at the first name the Entity affects already.
RECURSIVE NumAffected(_, _)
NumAffected(aff, names) ==
    IF names = <<>> \/ aff[Head(names)] # 0 THEN 0
    ELSE 1 + NumAffected([aff EXCEPT ![Head(names)] = environments[Head(names)]],
                         Tail(names))

\* Supervisor::affect_environments: check the names, then for each name
\* Environment::register_affecting_entity (Entity::affect_environment stores
\* the Environment's waker; the Environment appends the Entity).
AffectEnvironments(e, names) ==
    /\ InnerFree
    /\ ent_task[e].pc # "none"
    /\ \A i \in 1..Len(names) : environments[names[i]] # 0
    /\ LET k == NumAffected(affected_environments[e], names)
           done == {names[i] : i \in 1..k} IN
        /\ result' = IF k = Len(names) THEN Ok("affect_environments")
                                       ELSE App("affect_environments")
        /\ affected_environments' = [affected_environments EXCEPT ![e] =
               [n \in Names |-> IF n \in done THEN environments[n] ELSE @[n]]]
        /\ affecting_entities' = [x \in EnvIds |->
               IF \E n \in done : environments[n] = x
               THEN Append(affecting_entities[x], e) ELSE affecting_entities[x]]
    /\ UNCHANGED <<environments, entities, sv_call, sv_task, shutdown,
                   env_name, in_chan, out_chan, joined_entities,
                   drop_notifier, env_num, env_task, env_poll,
                   joined_environments, ent_num, ent_task, ent_poll,
                   submitted, ent_term, received, trig_vars, counting>>

(* --------------------------- Environment::poll ------------------------ *)
\* waker.task.notify() on the waker of every record of joined_entities.
NotifyJoined(x, tasks) ==
    [e \in EntIds |-> IF e \in Range(joined_entities[x])
                      THEN WatcherNotify(tasks[e]) ELSE tasks[e]]

\* A poll that counts from zero instead of loading num_received_effects.
EnvPollBegin_FromZero(x) ==
    /\ env_task[x].pc = "idle" /\ env_task[x].notified
    /\ env_task' = [env_task EXCEPT ![x] = Register(@, "drain")]
    /\ env_poll' = [env_poll EXCEPT ![x] = NoEnvPoll]
    /\ UNCHANGED <<sv_vars, env_name, in_chan, out_chan, joined_entities,
                   affecting_entities, drop_notifier, env_num, ent_vars,
                   submitted, received, trig_vars, counting>>

\* The head of Environment::poll: register with the waker, lock
\* joined_entities and out_chan, load num_received_effects.
EnvPollBegin(x) ==
    /\ env_task[x].pc = "idle" /\ env_task[x].notified
    /\ env_task' = [env_task EXCEPT ![x] = Register(@, "drain")]
    /\ env_poll' = [env_poll EXCEPT ![x] =
           [num_received |-> env_num[x], num |-> 0, effect |-> 0]]
    /\ UNCHANGED <<sv_vars, env_name, in_chan, out_chan, joined_entities,
                   affecting_entities, drop_notifier, env_num, ent_vars,
                   submitted, received, trig_vars, counting>>

\* A poll that takes the newest effect of the channel instead of the oldest.
EnvTryRecv_Newest(x) ==
    /\ env_task[x].pc = "drain"
    /\ in_chan[x] # <<>>
    /\ in_chan' = [in_chan EXCEPT ![x] = SubSeq(@, 1, Len(@) - 1)]
    /\ env_poll' = [env_poll EXCEPT ![x].effect = in_chan[x][Len(in_chan[x])],
                                    ![x].num = @ + 1]
    /\ env_task' = [env_task EXCEPT ![x].pc = "broadcast"]
    /\ UNCHANGED <<sv_vars, env_name, out_chan, joined_entities,
                   affecting_entities, drop_notifier, env_num, ent_vars,
                   submitted, received, trig_vars, counting>>

\* in_chan.try_recv() returns an effect: count it.
EnvTryRecv(x) ==
    /\ env_task[x].pc = "drain"
    /\ in_chan[x] # <<>>
    /\ in_chan' = [in_chan EXCEPT ![x] = Tail(@)]
    /\ env_poll' = [env_poll EXCEPT ![x].effect = Head(in_chan[x]),
                                    ![x].num = @ + 1]
    /\ env_task' = [env_task EXCEPT ![x].pc = "broadcast"]
    /\ UNCHANGED <<sv_vars, env_name, out_chan, joined_entities,
                   affecting_entities, drop_notifier, env_num, ent_vars,
                   submitted, received, trig_vars, counting>>

\* A poll without the wake-up at half the ring.
EnvBroadcast_NoHalfWake(x) ==
    /\ env_task[x].pc = "broadcast"
    /\ ~BusFull(x)
    /\ out_chan' = [out_chan EXCEPT ![x] = Append(@, env_poll[x].effect)]
    /\ env_poll' = [env_poll EXCEPT ![x].effect = 0]
    /\ env_task' = [env_task EXCEPT ![x].pc = "drain"]
    /\ UNCHANGED <<sv_vars, env_name, in_chan, joined_entities,
                   affecting_entities, drop_notifier, env_num, ent_vars,
                   submitted, received, trig_vars, counting>>

\* A poll that uses try_broadcast: with the ring full the effect is dropped.
EnvBroadcast_Try(x) ==
    /\ env_task[x].pc = "broadcast"
    /\ out_chan' = [out_chan EXCEPT ![x] =
           IF BusFull(x) THEN @ ELSE Append(@, env_poll[x].effect)]
    /\ IF env_poll[x].num = BROADCAST_BUFFER_SIZE \div 2
       THEN /\ ent_task' = NotifyJoined(x, ent_task)
            /\ env_poll' = [env_poll EXCEPT ![x] =
                   [num_received |-> @.num_received + @.num, num |-> 0,
                    effect |-> 0]]
       ELSE /\ ent_task' = ent_task
            /\ env_poll' = [env_poll EXCEPT ![x].effect = 0]
    /\ env_task' = [env_task EXCEPT ![x].pc = "drain"]
    /\ UNCHANGED <<sv_vars, env_name, in_chan, joined_entities,
                   affecting_entities, drop_notifier, env_num,
                   joined_environments, affected_environments, ent_num,
                   ent_poll, submitted, ent_term, received, trig_vars, counting>>

\* out_chan.broadcast(effect), which waits for room in the ring; then, when
\* the per-poll counter is at half the ring, wake every joined Entity and move
\* the counter into the local num_received.
EnvBroadcast(x) ==
    /\ env_task[x].pc = "broadcast"
    /\ ~BusFull(x)
    /\ out_chan' = [out_chan EXCEPT ![x] = Append(@, env_poll[x].effect)]
    /\ IF env_poll[x].num = BROADCAST_BUFFER_SIZE \div 2
       THEN /\ ent_task' = NotifyJoined(x, ent_task)
            /\ env_poll' = [env_poll EXCEPT ![x] =
                   [num_received |-> @.num_received + @.num, num |-> 0,
                    effect |-> 0]]
       ELSE /\ ent_task' = ent_task
            /\ env_poll' = [env_poll EXCEPT ![x].effect = 0]
    /\ env_task' = [env_task EXCEPT ![x].pc = "drain"]
    /\ UNCHANGED <<sv_vars, env_name, in_chan, joined_entities,
                   affecting_entities, drop_notifier, env_num,
                   joined_environments, affected_environments, ent_num,
                   ent_poll, submitted, ent_term, received, trig_vars, counting>>

\* in_chan.try_recv() returns nothing: store num_received_effects, wake every
\* joined Entity, unlock, poll the shutdown listener.
EnvPollEnd(x) ==
    /\ env_task[x].pc = "drain"
    /\ in_chan[x] = <<>>
    /\ env_num' = [env_num EXCEPT ![x] = env_poll[x].num_received + env_poll[x].num]
    /\ ent_task' = NotifyJoined(x, ent_task)
    /\ env_task' = [env_task EXCEPT ![x] = CheckShutdown(@)]
    /\ env_poll' = [env_poll EXCEPT ![x] = NoEnvPoll]
    /\ UNCHANGED <<sv_vars, env_name, in_chan, out_chan, joined_entities,
                   affecting_entities, drop_notifier, joined_environments,
                   affected_environments, ent_num, ent_poll, submitted,
                   ent_term, received, trig_vars, counting>>

(* ----------------- the counters of one Environment::poll -------------- *)
\* The counting of Environment::poll on its own, for a ring of any size: a
\* poll that finds `k` effects queued, with num_received_effects at `loaded`.
\* `read` is the number of effects taken so far, `half_wakes` the number of
\* times the joined Entities were notified inside the loop, `stored` the
\* value of num_received_effects.
CountBegin(ring, k, n0) ==
    /\ counting.pc = "none"
    /\ counting' = [pc |-> "drain", half |-> ring \div 2, queued |-> k,
                    loaded |-> n0, read |-> 0, num_received |-> n0, num |-> 0,
                    half_wakes |-> 0, stored |-> n0]
    /\ UNCHANGED <<sv_vars, env_vars, ent_vars, trig_vars, submitted, received>>

\* A loop body that resets the per-poll counter without adding it to
\* num_received.
CountRecv_DropOnReset ==
    /\ counting.pc = "drain"
    /\ counting.queued > 0
    /\ LET num == counting.num + 1 IN
        counting' = [counting EXCEPT
            !.queued = @ - 1,
            !.read = @ + 1,
            !.half_wakes = IF num = counting.half THEN @ + 1 ELSE @,
            !.num = IF num = counting.half THEN 0 ELSE num]
    /\ UNCHANGED <<sv_vars, env_vars, ent_vars, trig_vars, submitted, received>>

\* One turn of the loop with try_recv returning an effect: num += 1, and when
\* num == BROADCAST_BUFFER_SIZE / 2 notify the joined Entities, add num to
\* num_received and reset num.
CountRecv ==
    /\ counting.pc = "drain"
    /\ counting.queued > 0
    /\ LET num == counting.num + 1 IN
        counting' = [counting EXCEPT
            !.queued = @ - 1,
            !.read = @ + 1,
            !.half_wakes = IF num = counting.half THEN @ + 1 ELSE @,
            !.num_received = IF num = counting.half THEN @ + num ELSE @,
            !.num = IF num = counting.half THEN 0 ELSE num]
    /\ UNCHANGED <<sv_vars, env_vars, ent_vars, trig_vars, submitted, received>>

\* try_recv returns nothing: store num_received + num.
CountEnd ==
    /\ counting.pc = "drain"
    /\ counting.queued = 0
    /\ counting' = [counting EXCEPT
            !.pc = "done",
            !.stored = counting.num_received + counting.num]
    /\ UNCHANGED <<sv_vars, env_vars, ent_vars, trig_vars, submitted, received>>

(* ----------------------------- Entity::poll --------------------------- *)
JoinedNames(e) == {n \in Names : joined_environments[e][n].env # 0}

\* The orders in which a HashMap with these keys can iterate.
IterationOrders(S) ==
    {s \in [1..Cardinality(S) -> S] : \A i, j \in 1..Cardinality(S) : i # j => s[i] # s[j]}

\* The head of Entity::poll: register with the waker, load
\* num_received_effects, lock joined_environments and start iterating it.
EntPollBegin(e) ==
    /\ ent_task[e].pc = "idle" /\ ent_task[e].notified
    /\ \E order \in IterationOrders(JoinedNames(e)) :
        ent_poll' = [ent_poll EXCEPT ![e] =
            [num_effects |-> ent_num[e], num |-> 0, order |-> order]]
    /\ ent_task' = [ent_task EXCEPT ![e] = Register(@, "drain")]
    /\ UNCHANGED <<sv_vars, env_vars, joined_environments,
                   affected_environments, ent_num, submitted, ent_term,
                   received, trig_vars, counting>>

\* A reader whose cursor does not move: the same effect is read again.
EntTryRecv_NoAdvance(e) ==
    /\ ent_task[e].pc = "drain"
    /\ ent_poll[e].order # <<>>
    /\ LET n == Head(ent_poll[e].order)
           j == joined_environments[e][n] IN
        /\ j.pos < Len(out_chan[j.env])
        /\ received' = [received EXCEPT ![e][j.env] =
               Append(@, out_chan[j.env][j.pos + 1])]
    /\ ent_poll' = [ent_poll EXCEPT ![e].num = @ + 1]
    /\ UNCHANGED <<sv_vars, env_vars, joined_environments,
                   affected_environments, ent_num, ent_task, ent_term,
                   submitted, trig_vars, counting>>

\* A reader that jumps to the newest effect of the ring.
EntTryRecv_Latest(e) ==
    /\ ent_task[e].pc = "drain"
    /\ ent_poll[e].order # <<>>
    /\ LET n == Head(ent_poll[e].order)
           j == joined_environments[e][n] IN
        /\ j.pos < Len(out_chan[j.env])
        /\ joined_environments' =
               [joined_environments EXCEPT ![e][n].pos = Len(out_chan[j.env])]
        /\ received' = [received EXCEPT ![e][j.env] =
               Append(@, out_chan[j.env][Len(out_chan[j.env])])]
    /\ ent_poll' = [ent_poll EXCEPT ![e].num = @ + 1]
    /\ UNCHANGED <<sv_vars, env_vars, affected_environments, ent_num,
                   ent_task, ent_term, submitted, trig_vars, counting>>

\* in_chan.try_recv() on the reader of the Environment being visited returns
\* an effect: count it.
EntTryRecv(e) ==
    /\ ent_task[e].pc = "drain"
    /\ ent_poll[e].order # <<>>
    /\ LET n == Head(ent_poll[e].order)
           j == joined_environments[e][n] IN
        /\ j.pos < Len(out_chan[j.env])
        /\ joined_environments' = [joined_environments EXCEPT ![e][n].pos = @ + 1]
        /\ received' = [received EXCEPT ![e][j.env] =
               Append(@, out_chan[j.env][j.pos + 1])]
    /\ ent_poll' = [ent_poll EXCEPT ![e].num = @ + 1]
    /\ UNCHANGED <<sv_vars, env_vars, affected_environments, ent_num,
                   ent_task, ent_term, submitted, trig_vars, counting>>

\* in_chan.try_recv() on the reader being visited returns nothing.
Dry(e) ==
    LET j == joined_environments[e][Head(ent_poll[e].order)] IN
    j.pos = Len(out_chan[j.env])

\* A pass that takes one effect from a channel and moves on to the next.
EntDry_OneEach(e) ==
    /\ ent_task[e].pc = "drain"
    /\ Len(ent_poll[e].order) > 1
    /\ ent_poll' = [ent_poll EXCEPT ![e].order = Tail(@)]
    /\ UNCHANGED <<sv_vars, env_vars, joined_environments,
                   affected_environments, ent_num, ent_task, submitted,
                   ent_term, received, trig_vars, counting>>

\* This channel is dry (num_dry += 1) and it is not the last of the pass:
\* visit the next.
EntDry(e) ==
    /\ ent_task[e].pc = "drain"
    /\ Len(ent_poll[e].order) > 1
    /\ Dry(e)
    /\ ent_poll' = [ent_poll EXCEPT ![e].order = Tail(@)]
    /\ UNCHANGED <<sv_vars, env_vars, joined_environments,
                   affected_environments, ent_num, ent_task, submitted,
                   ent_term, received, trig_vars, counting>>

\* A scan that unsubscribes from every joined Environment.
Unsubscribe_All(joined) == [n \in Names |-> NoJoin]

\* The scan of the term_sig listeners: an Environment whose drop notifier was
\* pulled is removed from joined_environments (its reader is dropped); the
\* listeners of the others now hold the task.
Unsubscribe(joined) ==
    [n \in Names |->
        IF joined[n].env = 0 \/ drop_notifier[joined[n].env] THEN NoJoin
        ELSE [joined[n] EXCEPT !.listening = TRUE]]

\* A pass that ends at the first dry channel (break 'outer for break 'inner).
EntPollEnd_FirstDry(e) ==
    /\ ent_task[e].pc = "drain"
    /\ IF ent_poll[e].order = <<>> THEN TRUE ELSE Dry(e)
    /\ ent_num' = [ent_num EXCEPT ![e] = ent_poll[e].num_effects + ent_poll[e].num]
    /\ joined_environments' = [joined_environments EXCEPT ![e] = Unsubscribe(@)]
    /\ ent_task' = [ent_task EXCEPT ![e] = CheckShutdown(@)]
    /\ ent_poll' = [ent_poll EXCEPT ![e] = NoEntPoll]
    /\ UNCHANGED <<sv_vars, env_vars, affected_environments, submitted,
                   ent_term, received, trig_vars, counting>>

\* The last channel of the pass is dry, or nothing is joined; every inner loop
\* ended dry, so num_dry >= joined.len() and the outer loop ends after this one
\* pass: store num_received_effects, scan the term_sig listeners, unlock, poll
\* the shutdown listener.  (Nothing another task does between the last
\* try_recv and the end of the poll is read by the poll before it changes it,
\* so the two are one step.)
EntPollEnd(e) ==
    /\ ent_task[e].pc = "drain"
    /\ ent_poll[e].order = <<>> \/ (Len(ent_poll[e].order) = 1 /\ Dry(e))
    /\ ent_num' = [ent_num EXCEPT ![e] = ent_poll[e].num_effects + ent_poll[e].num]
    /\ joined_environments' = [joined_environments EXCEPT ![e] = Unsubscribe(@)]
    /\ ent_task' = [ent_task EXCEPT ![e] = CheckShutdown(@)]
    /\ ent_poll' = [ent_poll EXCEPT ![e] = NoEntPoll]
    /\ UNCHANGED <<sv_vars, env_vars, affected_environments, submitted,
                   ent_term, received, trig_vars, counting>>

(* --------------------------- Supervisor::poll ------------------------- *)
\* Lock `inner`, poll the shutdown listener.
SvPoll ==
    /\ sv_task.pc = "idle" /\ sv_task.notified
    /\ InnerFree
    /\ sv_task' = CheckShutdown([sv_task EXCEPT !.notified = FALSE])
    /\ UNCHANGED <<result, environments, entities, sv_call, shutdown, env_vars,
                   ent_vars, submitted, received, trig_vars, counting>>

(* ------------------------ Trigger (common/trigger.rs) ----------------- *)
\* A Trigger wraps tokio::sync::watch::channel(false).  The channel holds a
\* value and a version that every broadcast advances; a Receiver holds the
\* version it saw last (none at first), and Receiver::clone copies it.
\* `seen` is the history of what the polls of a listener returned, and
\* `late` tells that the listener was created after a pull.
NewHandle(ver) == [ver |-> ver, seen |-> <<>>, late |-> trigger.value]

\* get_handle that hands out a listener which has seen the current version.
GetHandle_Current ==
    /\ Len(handles) < MaxHandles
    /\ handles' = Append(handles, NewHandle(trigger.version))
    /\ UNCHANGED <<sv_vars, env_vars, ent_vars, trigger, counting, submitted, received>>

\* Trigger::get_handle: a clone of the Trigger's own Receiver, which is never
\* polled and so has seen no version.
GetHandle ==
    /\ Len(handles) < MaxHandles
    /\ handles' = Append(handles, NewHandle(0))
    /\ UNCHANGED <<sv_vars, env_vars, ent_vars, trigger, counting, submitted, received>>

\* Trigger::pull: Sender::broadcast(true) replaces the value and advances the
\* version.
Pull ==
    /\ trigger.version <= MaxPulls
    /\ trigger' = [value |-> TRUE, version |-> trigger.version + 1]
    /\ UNCHANGED <<sv_vars, env_vars, ent_vars, handles, counting, submitted, received>>

\* What Receiver::poll returns to a listener: the value when the version is
\* one the listener has not seen, NotReady otherwise.
PollResult(h) ==
    IF handles[h].ver # trigger.version
    THEN IF trigger.value THEN "true" ELSE "false"
    ELSE "NotReady"

\* TriggerHandle.0.poll(), as the tasks call it.
PollHandle(h) ==
    /\ h \in 1..Len(handles)
    /\ Len(handles[h].seen) < MaxPolls
    /\ handles' = [handles EXCEPT ![h] = [@ EXCEPT
            !.ver = trigger.version,
            !.seen = Append(@, PollResult(h))]]
    /\ UNCHANGED <<sv_vars, env_vars, ent_vars, trigger, counting, submitted, received>>

(* --------------------------- specifications --------------------------- *)
\* The steps of the tasks and of a Supervisor call under way.
EnvStep(x) == EnvPollBegin(x) \/ EnvTryRecv(x) \/ EnvBroadcast(x) \/ EnvPollEnd(x)
EntStep(e) == EntPollBegin(e) \/ EntTryRecv(e) \/ EntDry(e) \/ EntPollEnd(e)
JoinStep == JoinAddRx \/ JoinEntity \/ JoinPush

NumSubmitted == SumOver(submitted, EnvIds)
NoSubmission == NumSubmitted = 0

\* A step of a task or of a Supervisor call under way.
Progress ==
    \/ \E x \in EnvIds : EnvStep(x)
    \/ \E e \in EntIds : EntStep(e)
    \/ JoinStep

\* The executor does not stop while a task is scheduled or a poll can go on.
\* (Nothing is assumed about which task runs first.)
TaskFairness == WF_vars(Progress)

\* Fan-out (supervisor.rs tests submit_two_effects and
\* submit_many_effects_to_two_entities, main.rs test1 and test3): one
\* Environment X, Entities that join X before the first submission, then
\* submissions to X.  Nothing is deleted or shut down.
NextDelivery ==
    \/ NoSubmission /\ CreateEnvironment("X")
    \/ NoSubmission /\ CreateEntity
    \/ NoSubmission /\ \E e \in EntIds : JoinEnvironments(e, <<"X">>)
    \/ NumSubmitted < MaxSubmit /\ SubmitEffect("X")
    \/ JoinAddRx
    \/ JoinEntity
    \/ JoinPush
    \/ \E x \in EnvIds : EnvPollBegin(x)
    \/ \E x \in EnvIds : EnvTryRecv(x)
    \/ \E x \in EnvIds : EnvBroadcast(x)
    \/ \E x \in EnvIds : EnvPollEnd(x)
    \/ \E e \in EntIds : EntPollBegin(e)
    \/ \E e \in EntIds : EntTryRecv(e)
    \/ \E e \in EntIds : EntPollEnd(e)

SpecDelivery == Init /\ [][NextDelivery]_vars /\ TaskFairness

\* The executor polls every task that is scheduled, whatever the other tasks
\* and the thread that makes the Supervisor calls do meanwhile.
EachTaskFairness ==
    /\ \A x \in EnvIds : WF_vars(EnvStep(x))
    /\ \A e \in EntIds : WF_vars(EntStep(e))
    /\ WF_vars(JoinStep)

SpecDeliveryEach == Init /\ [][NextDelivery]_vars /\ EachTaskFairness

\* Two Environments (main.rs test2): X and Y are created, then Entity 1, which
\* joins X and Y, and Entity 2, which joins Y; then submissions to X and Y.
HasJoined(e, n) == joined_environments[e][n].env # 0
TwoEnvReady == InnerFree /\ HasJoined(1, "X") /\ HasJoined(1, "Y") /\ HasJoined(2, "Y")

NextTwoEnv ==
    \/ NumCreatedEnvs = 0 /\ CreateEnvironment("X")
    \/ NumCreatedEnvs = 1 /\ CreateEnvironment("Y")
    \/ NumCreatedEnvs = 2 /\ NumCreatedEnts < 2 /\ CreateEntity
    \/ NumCreatedEnts = 2 /\ ~HasJoined(1, "X") /\ JoinEnvironments(1, <<"X", "Y">>)
    \/ HasJoined(1, "Y") /\ ~HasJoined(2, "Y") /\ JoinEnvironments(2, <<"Y">>)
    \/ TwoEnvReady /\ NumSubmitted < MaxSubmitTwoEnv /\ \E n \in Names : SubmitEffect(n)
    \/ JoinAddRx
    \/ JoinEntity
    \/ JoinPush
    \/ \E x \in EnvIds : EnvPollBegin(x)
    \/ \E x \in EnvIds : EnvTryRecv(x)
    \/ \E x \in EnvIds : EnvBroadcast(x)
    \/ \E x \in EnvIds : EnvPollEnd(x)
    \/ \E e \in EntIds : EntPollBegin(e)
    \/ \E e \in EntIds : EntTryRecv(e)
    \/ \E e \in EntIds : EntDry(e)
    \/ \E e \in EntIds : EntPollEnd(e)

SpecTwoEnv == Init /\ [][NextTwoEnv]_vars /\ TaskFairness

\* The life cycle of one Environment and one Entity: every Supervisor call on
\* them at any time, while the tasks run.  Node::shutdown consumes the Node:
\* no call follows it.
Next ==
    \/ ~shutdown /\ NumCreatedEnvs = 0 /\ \E n \in Names : CreateEnvironment(n)
    \/ ~shutdown /\ NumCreatedEnts = 0 /\ CreateEntity
    \/ ~shutdown /\ NumSubmitted < MaxSubmit /\ \E n \in Names : SubmitEffect(n)
    \/ ~shutdown /\ \E n \in Names : DeleteEnvironment(n)
    \/ Shutdown
    \/ ~shutdown /\ \E e \in EntIds, names \in NameLists : JoinEnvironments(e, names)
    \/ ~shutdown /\ \E e \in EntIds, names \in NameLists : AffectEnvironments(e, names)
    \/ JoinAddRx
    \/ JoinEntity
    \/ JoinPush
    \/ \E x \in EnvIds : EnvPollBegin(x)
    \/ \E x \in EnvIds : EnvTryRecv(x)
    \/ \E x \in EnvIds : EnvBroadcast(x)
    \/ \E x \in EnvIds : EnvPollEnd(x)
    \/ \E e \in EntIds : EntPollBegin(e)
    \/ \E e \in EntIds : EntTryRecv(e)
    \/ \E e \in EntIds : EntPollEnd(e)
    \/ SvPoll

Spec == Init /\ [][Next]_vars /\ WF_vars(Progress \/ SvPoll)

HasAffected(e, n) == affected_environments[e][n] # 0
PipeReady == InnerFree /\ HasJoined(1, "X") /\ HasAffected(1, "Y")

\* The pipe (main.rs test4, tests/integration_tests.rs pipe): Environments X
\* and Y, one Entity that joins X and affects Y, then one submission to X.
NextPipe ==
    \/ NumCreatedEnvs = 0 /\ CreateEnvironment("X")
    \/ NumCreatedEnvs = 1 /\ CreateEnvironment("Y")
    \/ NumCreatedEnvs = 2 /\ NumCreatedEnts = 0 /\ CreateEntity
    \/ ~HasJoined(1, "X") /\ JoinEnvironments(1, <<"X">>)
    \/ HasJoined(1, "X") /\ ~HasAffected(1, "Y") /\ AffectEnvironments(1, <<"Y">>)
    \/ PipeReady /\ NoSubmission /\ SubmitEffect("X")
    \/ JoinAddRx
    \/ JoinEntity
    \/ JoinPush
    \/ \E x \in EnvIds : EnvPollBegin(x)
    \/ \E x \in EnvIds : EnvTryRecv(x)
    \/ \E x \in EnvIds : EnvBroadcast(x)
    \/ \E x \in EnvIds : EnvPollEnd(x)
    \/ \E e \in EntIds : EntPollBegin(e)
    \/ \E e \in EntIds : EntTryRecv(e)
    \/ \E e \in EntIds : EntPollEnd(e)

SpecPipe == Init /\ [][NextPipe]_vars /\ TaskFairness

\* The lists of names of the calls below: those above and one of three names.
CallLists == NameLists \cup {<<"X", "X", "Y">>}

\* The Supervisor's calls, each with its error returns, on two names and one
\* Entity, before the executor has polled a task (supervisor.rs tests
\* create_two_different_environments, forbid_creating_the_same_environment_twice
\* and create_and_delete_environment, which run no executor, and the like for
\* the other calls).
NextCalls ==
    \/ \E n \in Names : CreateEnvironment(n)
    \/ \E n \in Names : CreateEnvironmentExisting(n)
    \/ \E n \in Names : DeleteEnvironment(n)
    \/ \E n \in Names : DeleteEnvironmentUnknown(n)
    \/ NumSubmitted < MaxSubmitCalls /\ \E n \in Names : SubmitEffect(n)
    \/ \E n \in Names : SubmitEffectUnknown(n)
    \/ NumCreatedEnts = 0 /\ CreateEntity
    \/ \E e \in EntIds : DeleteEntity(e)
    \/ \E e \in EntIds : DeleteEntityUnknown(e)
    \/ \E e \in EntIds, names \in CallLists : JoinEnvironments(e, names)
    \/ \E e \in EntIds, names \in CallLists : JoinEnvironmentsUnknown(e, names)
    \/ \E e \in EntIds, names \in CallLists : AffectEnvironments(e, names)
    \/ \E e \in EntIds, names \in CallLists : AffectEnvironmentsUnknown(e, names)
    \/ JoinAddRx
    \/ JoinEntity
    \/ JoinPush

SpecCalls == Init /\ [][NextCalls]_vars

\* delete_entity while the tasks run: one Environment X and one Entity that
\* joins X; submissions to X and delete_entity at any time, no shutdown.
NextEntity ==
    \/ NumCreatedEnvs = 0 /\ CreateEnvironment("X")
    \/ NumCreatedEnts = 0 /\ CreateEntity
    \/ \E e \in EntIds : ~HasJoined(e, "X") /\ JoinEnvironments(e, <<"X">>)
    \/ NumSubmitted < MaxSubmitEntity /\ SubmitEffect("X")
    \/ \E e \in EntIds : DeleteEntity(e)
    \/ \E e \in EntIds : DeleteEntityUnknown(e)
    \/ JoinAddRx
    \/ JoinEntity
    \/ JoinPush
    \/ \E x \in EnvIds : EnvPollBegin(x)
    \/ \E x \in EnvIds : EnvTryRecv(x)
    \/ \E x \in EnvIds : EnvBroadcast(x)
    \/ \E x \in EnvIds : EnvPollEnd(x)
    \/ \E e \in EntIds : EntPollBegin(e)
    \/ \E e \in EntIds : EntTryRecv(e)
    \/ \E e \in EntIds : EntPollEnd(e)
    \/ SvPoll

SpecEntity == Init /\ [][NextEntity]_vars /\ WF_vars(Progress \/ SvPoll)

\* Pulls while the tasks run: one Environment X and one Entity that may join
\* it; submissions to X, delete_environment and Node::shutdown at any time.
NextPull ==
    \/ ~shutdown /\ NumCreatedEnvs = 0 /\ CreateEnvironment("X")
    \/ ~shutdown /\ NumCreatedEnts = 0 /\ CreateEntity
    \/ ~shutdown /\ NumSubmitted < MaxSubmitPull /\ SubmitEffect("X")
    \/ ~shutdown /\ DeleteEnvironment("X")
    \/ Shutdown
    \/ ~shutdown /\ \E e \in EntIds : JoinEnvironments(e, <<"X">>)
    \/ JoinAddRx
    \/ JoinEntity
    \/ JoinPush
    \/ \E x \in EnvIds : EnvPollBegin(x)
    \/ \E x \in EnvIds : EnvTryRecv(x)
    \/ \E x \in EnvIds : EnvBroadcast(x)
    \/ \E x \in EnvIds : EnvPollEnd(x)
    \/ \E e \in EntIds : EntPollBegin(e)
    \/ \E e \in EntIds : EntTryRecv(e)
    \/ \E e \in EntIds : EntPollEnd(e)
    \/ SvPoll

SpecPull == Init /\ [][NextPull]_vars /\ WF_vars(Progress \/ SvPoll)

\* Name reuse: the name X is given to an Environment, deleted and given to a
\* second Environment, with one Entity that joins X, and submissions to X,
\* in every interleaving with the tasks.
MaxSubmitReuse == 2
NextReuse ==
    \/ NumCreatedEnvs < MaxEnv /\ CreateEnvironment("X")
    \/ NumCreatedEnts = 0 /\ CreateEntity
    \/ NumSubmitted < MaxSubmitReuse /\ SubmitEffect("X")
    \/ DeleteEnvironment("X")
    \/ \E e \in EntIds : JoinEnvironments(e, <<"X">>)
    \/ JoinAddRx
    \/ JoinEntity
    \/ JoinPush
    \/ \E x \in EnvIds : EnvPollBegin(x)
    \/ \E x \in EnvIds : EnvTryRecv(x)
    \/ \E x \in EnvIds : EnvBroadcast(x)
    \/ \E x \in EnvIds : EnvPollEnd(x)
    \/ \E e \in EntIds : EntPollBegin(e)
    \/ \E e \in EntIds : EntTryRecv(e)
    \/ \E e \in EntIds : EntPollEnd(e)

SpecReuse == Init /\ [][NextReuse]_vars /\ TaskFairness

\* One Environment::poll for every size of the ring, every number of queued
\* effects and every earlier value of the counter within the bounds.
NextCounting ==
    \/ \E ring \in 2..MaxRing, k \in 0..MaxQueued, n0 \in 0..MaxLoaded :
          CountBegin(ring, k, n0)
    \/ CountRecv
    \/ CountEnd

SpecCounting == Init /\ [][NextCounting]_vars

\* One Trigger and its listeners: get_handle, pull and polls in any order.
NextTrigger ==
    \/ GetHandle
    \/ Pull
    \/ \E h \in 1..MaxHandles : PollHandle(h)

SpecTrigger == Init /\ [][NextTrigger]_vars

(* ------------------------------- claims ------------------------------- *)
\* <<1, 2, ..., k>>: the first k effects submitted to an instance, in order.
FirstSubmitted(k) == [i \in 1..k |-> i]

\* The instances an Entity holds a reader of.
JoinedEnvs(e) == {joined_environments[e][n].env : n \in JoinedNames(e)}

\* C1: after the submissions to a spawned Environment have stopped (no delete,
\* no shutdown), its num_received_effects reaches the number of successful
\* submissions and stays there.
C1_EnvCountsEverySubmission ==
    \A x \in EnvIds : <>[](env_num[x] = submitted[x])

C1_Witness ==
    /\ submitted[1] = MaxSubmit
    /\ env_num[1] = MaxSubmit
    /\ env_task[1].pc = "idle" /\ ~env_task[1].notified

\* C2: every Entity that joined X before the first submission ends with
\* num_received_effects equal to the number of submissions to X, with several
\* Entities joined and with more submissions than the ring holds.
C2_EntityCountsEverySubmission ==
    \A e \in EntIds :
        <>[](HasJoined(e, "X") => ent_num[e] = submitted[joined_environments[e]["X"].env])

C2_Witness ==
    /\ submitted[1] > BROADCAST_BUFFER_SIZE
    /\ \A e \in EntIds : HasJoined(e, "X") /\ ent_num[e] = submitted[1]

\* C3: an Entity joined to X and Y ends with the sum of the submissions to X
\* and to Y, an Entity joined to Y alone with the submissions to Y.
C3_CountsAddUpOverJoinedEnvironments ==
    <>[](TwoEnvReady =>
            /\ ent_num[1] = submitted[environments["X"]] + submitted[environments["Y"]]
            /\ ent_num[2] = submitted[environments["Y"]])

C3_Witness ==
    /\ TwoEnvReady
    /\ submitted[environments["X"]] = 1 /\ submitted[environments["Y"]] = 1
    /\ ent_num[1] = 2 /\ ent_num[2] = 1

\* C4: what an Entity that joined X before the first submission has read from
\* X is, at every moment and under every interleaving, the first effects
\* submitted to X in the order of submission.
C4_PerEnvironmentFifo ==
    \A e \in EntIds, x \in EnvIds :
        received[e][x] = FirstSubmitted(Len(received[e][x]))

C4_Witness ==
    \E e \in EntIds : received[e][1] = FirstSubmitted(MaxSubmit)

\* C5: an Entity reads no effect of an Environment twice, reads nothing from an
\* Environment it has not joined, and so never counts more effects than were
\* submitted to the Environments it joined.
NoDuplicates(q) == \A i, j \in 1..Len(q) : i # j => q[i] # q[j]

C5_AtMostOncePerSubscriber ==
    \A e \in EntIds :
        /\ \A x \in EnvIds : NoDuplicates(received[e][x])
        /\ \A x \in EnvIds : received[e][x] # <<>> => x \in JoinedEnvs(e)
        /\ ent_num[e] <= SumOver(submitted, JoinedEnvs(e))
        /\ ent_poll[e].num_effects + ent_poll[e].num <= SumOver(submitted, JoinedEnvs(e))

C5_Witness ==
    /\ TwoEnvReady
    /\ submitted[environments["X"]] = 1 /\ submitted[environments["Y"]] = 1
    /\ received[2][environments["X"]] = <<>>
    /\ ent_num[2] = 1 /\ ent_num[1] = 2

\* C6: the effects an Environment has read from its inbound channel are, in the
\* order read, the effects on its broadcaster followed by the one effect the
\* poll is about to broadcast: none is missing, none is there twice.
NumRead(x) == submitted[x] - Len(in_chan[x])
InHand(x) == IF env_task[x].pc = "broadcast" THEN <<env_poll[x].effect>> ELSE <<>>

C6_EveryReadEffectBroadcastOnce ==
    \A x \in EnvIds : out_chan[x] \o InHand(x) = FirstSubmitted(NumRead(x))

C6_Witness ==
    /\ Len(out_chan[1]) = MaxSubmit
    /\ env_poll[1].num_received + env_poll[1].num >= 2

\* A task that is not spawned, has completed, or sleeps with no wake-up due.
Settled(t) == t.pc \in {"none", "done"} \/ (t.pc = "idle" /\ ~t.notified)

\* No Supervisor call is under way and every task is settled.
Quiescent ==
    /\ InnerFree
    /\ \A x \in EnvIds : Settled(env_task[x])
    /\ \A e \in EntIds : Settled(ent_task[e])

\* C7: with an Entity that joined X and affects Y, once the one effect
\* submitted to X has been handled by every task, Y has received exactly one
\* effect (the reversed one); and Y never receives more than one.
C7_PipeForwardsToAffectedEnvironment ==
    /\ env_num[2] <= 1
    /\ (PipeReady /\ submitted[1] = 1 /\ Quiescent) => env_num[2] = 1

\* No task can take a step, now or later, unless the Supervisor acts.
NoTaskCanStep == ~ENABLED (Progress \/ SvPoll)

Completed(t) == t.pc \in {"none", "done"}

AllTasksCompleted ==
    /\ Completed(sv_task)
    /\ \A x \in EnvIds : Completed(env_task[x])
    /\ \A e \in EntIds : Completed(ent_task[e])

\* C8: once the shutdown trigger is pulled the tasks do not come to a halt
\* before every spawned task has completed, whatever is queued in the inbound
\* channels and in the broadcast ring at the time of the pull.
C8_ShutdownCompletesEveryTask ==
    (shutdown /\ InnerFree /\ NoTaskCanStep) => AllTasksCompleted

\* C9: once delete_environment has returned for the one Environment an Entity
\* is joined to, the Entity's num_received_effects does not increase.
C9_NoDeliveryAfterDelete ==
    [][\A e \in EntIds, x \in EnvIds :
          (JoinedEnvs(e) = {x} /\ drop_notifier[x]) => ent_num'[e] <= ent_num[e]]_vars

\* C10: after delete_environment (and with no shutdown), the tasks do not come
\* to a halt while a spawned Entity still has the deleted Environment in its
\* joined set.
C10_DeletedEnvironmentIsUnsubscribed ==
    (~shutdown /\ InnerFree /\ NoTaskCanStep) =>
        \A e \in EntIds, n \in Names :
            HasJoined(e, n) => ~drop_notifier[joined_environments[e][n].env]

\* C11: after delete_environment has pulled an Environment's drop notifier
\* (and with no shutdown), the tasks do not come to a halt before that
\* Environment's task has completed.
C11_DeletedEnvironmentTaskCompletes ==
    (~shutdown /\ InnerFree /\ NoTaskCanStep) =>
        \A x \in EnvIds : drop_notifier[x] => Completed(env_task[x])

\* num_environments(): the names the registry holds.
NumEnvironments == Cardinality({n \in Names : environments[n] # 0})

\* The Environments created and not deleted.
LiveEnvs == {x \in EnvIds : env_name[x] # "-" /\ ~drop_notifier[x]}

\* The registry holds, under its own name, each Environment created and not
\* deleted, and nothing else.
RegistryIsLiveEnvs ==
    /\ \A n \in Names : environments[n] # 0 =>
           environments[n] \in LiveEnvs /\ env_name[environments[n]] = n
    /\ \A x \in LiveEnvs : environments[env_name[x]] = x
    /\ NumEnvironments = Cardinality(LiveEnvs)

\* C12: create_environment with a name the registry holds returns Error::App
\* and changes neither the registry nor an Environment; so the registry holds
\* one connection per name created and not deleted.
C12_DuplicateCreateIsRejected ==
    [][/\ \A n \in Names :
            (InnerFree /\ environments[n] # 0 /\ CreateEnvironmentExisting(n)) =>
                /\ result' = App("create_environment")
                /\ environments' = environments
                /\ UNCHANGED env_vars
       /\ RegistryIsLiveEnvs']_vars

C12_Witness ==
    /\ result = App("create_environment")
    /\ NumEnvironments = 2
    /\ NumCreatedEnvs = 2

\* How many records of a list are for Entity e.
Records(list, e) == Cardinality({i \in 1..Len(list) : list[i] = e})

\* C13: a join of an Environment the Entity has joined, and an affect of one
\* it affects, return Error::App and change neither the Entity's map nor the
\* Environment's list; so no list ever holds two records for one Entity.
C13_DuplicateJoinOrAffectIsRejected ==
    [][/\ (/\ sv_call.op = "join" /\ sv_call.stage = "join"
           /\ HasJoined(sv_call.entity, Head(sv_call.names))
           /\ JoinEntity) =>
              /\ result' = App("join_environments")
              /\ sv_call' = NoCall
              /\ UNCHANGED <<joined_environments, joined_entities>>
       /\ \A e \in EntIds, n \in Names :
              (HasAffected(e, n) /\ AffectEnvironments(e, <<n>>)) =>
                  /\ result' = App("affect_environments")
                  /\ UNCHANGED <<affected_environments, affecting_entities>>
       /\ \A x \in EnvIds, e \in EntIds :
              /\ Records(joined_entities'[x], e) <= 1
              /\ Records(affecting_entities'[x], e) <= 1]_vars

C13_Witness ==
    /\ result = App("join_environments")
    /\ NumEnvironments = 2
    /\ HasJoined(1, "X") /\ HasAffected(1, "X")
    /\ Records(joined_entities[environments["X"]], 1) = 1
    /\ Records(affecting_entities[environments["X"]], 1) = 1

\* The registrations: the Entities' maps and the Environments' lists.
registrations == <<joined_environments, affected_environments, joined_entities,
                   affecting_entities>>

HasUnknown(names) == \E i \in 1..Len(names) : environments[names[i]] = 0

\* C14: join_environments and affect_environments with a list that has a name
\* the registry does not hold return Error::App and register nothing, the
\* names of the list that the registry holds included.
C14_UnknownNameRegistersNothing ==
    [][\A e \in EntIds, names \in CallLists :
          /\ (HasUnknown(names) /\ JoinEnvironmentsUnknown(e, names)) =>
                /\ result' = App("join_environments")
                /\ sv_call' = NoCall
                /\ UNCHANGED registrations
          /\ (HasUnknown(names) /\ AffectEnvironmentsUnknown(e, names)) =>
                /\ result' = App("affect_environments")
                /\ UNCHANGED registrations
          /\ (sv_call'.op = "join" /\ sv_call'.entity = e /\ sv_call'.all = names) =>
                ~HasUnknown(names)]_vars

C14_Witness ==
    /\ result = App("join_environments")
    /\ NumEnvironments = 1 /\ NumCreatedEnvs = 1 /\ environments["X"] # 0
    /\ NumCreatedEnts = 1
    /\ \A n \in Names : ~HasJoined(1, n) /\ ~HasAffected(1, n)
    /\ joined_entities[environments["X"]] = <<>>

\* The names a join call under way has registered: those before the name at
\* hand.
RegisteredByCall ==
    {sv_call.all[j] : j \in 1..(Len(sv_call.all) - Len(sv_call.names))}

\* C15: when a registration of a join call fails because the Entity has
\* joined the name, the call returns Error::App at once: the names it has
\* registered stay registered and the names after the failing one are not
\* registered.
C15_FailedJoinKeepsPartialJoin ==
    [][(/\ sv_call.op = "join" /\ sv_call.stage = "join"
        /\ HasJoined(sv_call.entity, Head(sv_call.names))
        /\ JoinEntity) =>
           /\ result' = App("join_environments")
           /\ sv_call' = NoCall
           /\ UNCHANGED registrations
           /\ LET e == sv_call.entity IN
              \A n \in RegisteredByCall :
                 /\ joined_environments'[e][n].env = environments[n]
                 /\ Records(joined_entities'[environments[n]], e) = 1]_vars

C15_Witness ==
    /\ sv_call.op = "join" /\ sv_call.stage = "join"
    /\ sv_call.all = <<"X", "X", "Y">> /\ sv_call.names = <<"X", "Y">>
    /\ RegisteredByCall = {"X"}
    /\ HasJoined(sv_call.entity, "X") /\ ~HasJoined(sv_call.entity, "Y")
    /\ joined_entities[environments["X"]] = <<sv_call.entity>>
    /\ joined_entities[environments["Y"]] = <<>>

\* C16: submit_effect with a name the registry does not hold (never created,
\* or deleted) returns Error::App and changes nothing: no channel gains an
\* effect, no task is woken, no counter moves; so an effect is only ever
\* enqueued on an Environment the registry holds.
C16_SubmitToUnknownNameChangesNothing ==
    [][/\ \A n \in Names :
            (InnerFree /\ environments[n] = 0 /\ SubmitEffectUnknown(n)) =>
                /\ result' = App("submit_effect")
                /\ UNCHANGED <<environments, entities, sv_call, sv_task,
                               env_vars, ent_vars, submitted, received>>
       /\ \A x \in EnvIds :
            in_chan'[x] # in_chan[x] => \E n \in Names : environments[n] = x]_vars

C16_Witness ==
    /\ result = App("submit_effect")
    /\ \E x \in EnvIds :
        /\ env_name[x] = "X" /\ environments["X"] = 0
        /\ in_chan[x] # <<>>
    /\ environments["Y"] # 0

\* C17: delete_environment of a registered name removes its connection alone
\* (num_environments() decreases by one) and pulls the drop notifier of its
\* Environment; of a name the registry does not hold it returns Error::App,
\* leaves the registry as it is and pulls nothing.  So a drop notifier is
\* pulled exactly when its Environment was created and has been deleted.
C17_DeleteRemovesAndPulls ==
    [][/\ \A n \in Names :
            /\ (InnerFree /\ environments[n] # 0 /\ DeleteEnvironment(n)) =>
                  /\ result' = Ok("delete_environment")
                  /\ environments' = [environments EXCEPT ![n] = 0]
                  /\ NumEnvironments' = NumEnvironments - 1
                  /\ drop_notifier' = [drop_notifier EXCEPT ![environments[n]] = TRUE]
            /\ (InnerFree /\ environments[n] = 0 /\ DeleteEnvironmentUnknown(n)) =>
                  /\ result' = App("delete_environment")
                  /\ UNCHANGED <<environments, drop_notifier>>
       /\ \A x \in EnvIds :
            drop_notifier'[x] <=>
                (env_name'[x] # "-" /\ \A m \in Names : environments'[m] # x)]_vars

C17_Witness ==
    /\ result = Ok("delete_environment")
    /\ NumCreatedEnvs = 2 /\ NumEnvironments = 1
    /\ \E x \in EnvIds : drop_notifier[x] /\ environments[env_name[x]] = 0

NumEntities == Cardinality(entities)

\* C18: delete_entity of a registered Entity removes its connection
\* (num_entities() decreases by one) and pulls the Entity's own termination
\* trigger, and of an unknown uuid returns Error::App with the registry
\* unchanged; and after the pull (with no shutdown) the tasks do not come to
\* a halt before the deleted Entity's task has completed.
C18_DeletedEntityTaskTerminates ==
    (~shutdown /\ InnerFree /\ NoTaskCanStep) =>
        \A e \in EntIds : ent_term[e] => Completed(ent_task[e])

\* The registry half of C18 alone.
C18_DeleteRemovesEntity ==
    [][\A e \in EntIds :
        /\ (InnerFree /\ e \in entities /\ DeleteEntity(e)) =>
              /\ result' = Ok("delete_entity")
              /\ entities' = entities \ {e}
              /\ NumEntities' = NumEntities - 1
              /\ ent_term' = [ent_term EXCEPT ![e] = TRUE]
        /\ (InnerFree /\ e \notin entities /\ DeleteEntityUnknown(e)) =>
              /\ result' = App("delete_entity")
              /\ UNCHANGED <<entities, ent_term>>]_vars

Last(q) == q[Len(q)]

\* C19: once the Trigger is pulled, every poll of a listener returns
\* Ready(true): the first poll after the pull and every later poll of the
\* same listener.
C19_EveryPollAfterPullYieldsTrue ==
    [][\A h \in 1..Len(handles) :
          (trigger.value /\ PollHandle(h)) => Last(handles'[h].seen) = "true"]_vars

\* The values a listener has observed: what its polls returned when ready.
IsValue(r) == r # "NotReady"
Values(h) == SelectSeq(handles[h].seen, IsValue)
IsPrefix(p, q) == Len(p) <= Len(q) /\ \A i \in 1..Len(p) : p[i] = q[i]

\* A listener created after a pull has seen true on its first poll.
LateListenerSeesTrueFirst ==
    \A h \in 1..Len(handles) :
        (handles[h].late /\ handles[h].seen # <<>>) => handles[h].seen[1] = "true"

Sleeping(t) == t.pc = "idle" /\ t.listening

\* The Entities that sleep with a polled term_sig listener of Environment x.
SleepingOn(x) ==
    {e \in EntIds : /\ ent_task[e].pc = "idle"
                    /\ \E n \in Names : /\ joined_environments[e][n].env = x
                                        /\ joined_environments[e][n].listening}

\* C21: a pull sets the cell of the trigger from false to true and schedules
\* every sleeping task that holds a polled listener of it for a poll (the
\* shutdown trigger: Supervisor, Environments and Entities; a drop notifier:
\* the Entities joined to the Environment); and a task that sleeps with a
\* polled shutdown listener when the trigger is pulled is polled again.
C21_PullWakesPolledListeners ==
    /\ [][/\ Shutdown =>
                /\ ~shutdown /\ shutdown'
                /\ Sleeping(sv_task) => sv_task'.notified
                /\ \A x \in EnvIds : Sleeping(env_task[x]) => env_task'[x].notified
                /\ \A e \in EntIds : Sleeping(ent_task[e]) => ent_task'[e].notified
          /\ \A n \in Names :
                (InnerFree /\ environments[n] # 0 /\ DeleteEnvironment(n)) =>
                    /\ ~drop_notifier[environments[n]]
                    /\ drop_notifier'[environments[n]]
                    /\ \A e \in SleepingOn(environments[n]) : ent_task'[e].notified]_vars
    /\ (shutdown /\ Sleeping(sv_task)) ~> (sv_task.pc = "done")
    /\ \A x \in EnvIds : (shutdown /\ Sleeping(env_task[x])) ~> (env_task[x].pc # "idle")
    /\ \A e \in EntIds : (shutdown /\ Sleeping(ent_task[e])) ~> (ent_task[e].pc # "idle")

\* The shutdown trigger was just pulled with the Supervisor, an Environment and
\* an Entity asleep on their polled listeners: all three are scheduled.
C21_Witness ==
    /\ shutdown
    /\ Sleeping(sv_task) /\ sv_task.notified
    /\ \E x \in EnvIds : Sleeping(env_task[x]) /\ env_task[x].notified
    /\ \E e \in EntIds : Sleeping(ent_task[e]) /\ ent_task[e].notified

\* A task that registered with its Watcher and has not completed.
Live(t) == t.registered /\ t.pc \notin {"none", "done"}

\* C22: a notify on a task's Watcher, issued while the task sleeps or after it
\* registered in the poll it is in, leaves the task scheduled; a notify on a
\* task already scheduled changes nothing; a poll starts only on a scheduled
\* task and takes up every notify issued before it; and a scheduled task is
\* polled.  (submit_effect notifies the Environment; the tail of an
\* Environment's poll notifies the joined Entities.)
C22_NotifiesCoalesceAndAreNotLost ==
    /\ [][/\ \A n \in Names, x \in EnvIds :
                (environments[n] = x /\ Live(env_task[x]) /\ SubmitEffect(n)) =>
                    /\ env_task'[x].notified
                    /\ env_task[x].notified => env_task'[x] = env_task[x]
          /\ \A x \in EnvIds :
                /\ EnvPollBegin(x) => env_task[x].notified /\ ~env_task'[x].notified
                /\ EnvPollEnd(x) =>
                      \A e \in Range(joined_entities[x]) :
                          Live(ent_task[e]) =>
                              /\ ent_task'[e].notified
                              /\ ent_task[e].notified => ent_task'[e] = ent_task[e]
          /\ \A e \in EntIds :
                EntPollBegin(e) => ent_task[e].notified /\ ~ent_task'[e].notified]_vars
    /\ \A x \in EnvIds :
          (env_task[x].pc = "idle" /\ env_task[x].notified) ~> (env_task[x].pc # "idle")
    /\ \A e \in EntIds :
          (ent_task[e].pc = "idle" /\ ent_task[e].notified) ~> (ent_task[e].pc # "idle")

\* Two submissions have arrived since the Environment registered in the poll
\* it is in: it is scheduled, once.
C22_Witness ==
    /\ env_task[1].pc \in {"drain", "broadcast"}
    /\ env_task[1].notified
    /\ Len(in_chan[1]) >= 2

\* C23: num_received_effects of every Environment and of every Entity never
\* decreases: no step of any task or call, a poll under way included, takes a
\* counter below the value it had.
C23_CountersNeverDecrease ==
    [][/\ \A x \in EnvIds : env_num'[x] >= env_num[x]
       /\ \A e \in EntIds : ent_num'[e] >= ent_num[e]]_vars

\* An Environment that stored a count in an earlier poll is in a later poll
\* and has read more, and an Entity has stored a count: a reader sees the
\* earlier values meanwhile.
C23_Witness ==
    /\ \E x \in EnvIds :
          /\ env_num[x] >= 1
          /\ env_task[x].pc = "drain"
          /\ env_poll[x].num_received + env_poll[x].num > env_num[x]
    /\ \E e \in EntIds : ent_num[e] >= 1

\* The Entities that joined Environment instance x.
JoinedTo(x) == {e \in EntIds : \E n \in Names : joined_environments[e][n].env = x}

\* C24: two Entities that joined X before the first submission receive the
\* same sequence of effects from X: at any moment what one has received is the
\* beginning of what the other has received, and once every task has handled
\* everything they have received the same sequence.
C24_SameSequenceForEveryEntity ==
    \A x \in EnvIds : \A a, b \in JoinedTo(x) :
        /\ IsPrefix(received[a][x], received[b][x]) \/ IsPrefix(received[b][x], received[a][x])
        /\ Quiescent => received[a][x] = received[b][x]

\* Two Entities joined to X of which one has received three effects and the
\* other, scheduled later, one.
C24_Witness ==
    /\ JoinedTo(1) = {1, 2}
    /\ Len(received[1][1]) = 3
    /\ Len(received[2][1]) = 1

\* A task that is inside a poll.
InPoll(t) == t.pc \in {"drain", "broadcast"}

\* C25: no poll of an Environment or Entity blocks inside the poll: the tasks
\* never come to a halt with a poll under way, waiting on a channel or on
\* another task (with no shutdown, where a completed task reads no more).
C25_NoPollBlocksForEver ==
    (~shutdown /\ InnerFree /\ NoTaskCanStep) =>
        /\ \A x \in EnvIds : ~InPoll(env_task[x])
        /\ \A e \in EntIds : ~InPoll(ent_task[e])

\* C26: an Environment with a joined Entity finishes broadcasting everything
\* that was submitted to it: (with no shutdown) the tasks do not come to a
\* halt with the Environment waiting on a full ring, or with an effect of it
\* not yet broadcast.
C26_BackPressureDoesNotDeadlock ==
    (~shutdown /\ InnerFree /\ NoTaskCanStep) =>
        \A x \in EnvIds :
            joined_entities[x] # <<>> =>
                /\ ~(env_task[x].pc = "broadcast" /\ BusFull(x))
                /\ Len(out_chan[x]) = submitted[x]

\* C27: a poll that reads k effects raises num_received_effects by exactly k,
\* whatever k and the size of the ring (k zero, below, equal to or a multiple
\* of half the ring); inside the loop the local counters always add up to the
\* effects read so far, the per-poll counter stays below half the ring, and
\* the joined Entities have been notified once for each time it reached half.
C27_PollCountsEveryEffectOnce ==
    counting.pc # "none" =>
        /\ counting.num_received + counting.num = counting.loaded + counting.read
        /\ counting.num = counting.read % counting.half
        /\ counting.half_wakes = counting.read \div counting.half
        /\ counting.pc = "drain" => counting.stored = counting.loaded
        /\ counting.pc = "done" =>
              /\ counting.queued = 0
              /\ counting.stored = counting.loaded + counting.read

\* A poll with a ring of four that read four effects, twice half the ring.
C27_Witness ==
    /\ counting.pc = "done"
    /\ counting.half = 2
    /\ counting.read = 4
    /\ counting.half_wakes = 2
    /\ counting.stored = counting.loaded + 4

\* C28: once every task has handled everything, an Entity has counted each
\* effect broadcast by the Environment it joined once, and every Environment
\* the Entity affects has received one effect for each effect the Entity
\* received.
C28_EveryInputIsPublishedToAffected ==
    (PipeReady /\ Quiescent) =>
        \A e \in EntIds :
            /\ \A n \in Names :
                  HasJoined(e, n) =>
                      ent_num[e] = submitted[joined_environments[e][n].env]
            /\ \A n \in Names :
                  HasAffected(e, n) => env_num[environments[n]] = ent_num[e]

JoinedBefore(m, n) == m = "X" /\ n = "Y"

\* C30: in a poll, an Entity joined to several Environments visits them in
\* the order in which it joined them: of two Environments still to be visited
\* in the pass, the one joined first comes first.
C30_VisitsInJoinOrder ==
    \A e \in EntIds :
        \A i, j \in 1..Len(ent_poll[e].order) :
            i < j => JoinedBefore(ent_poll[e].order[i], ent_poll[e].order[j])

ChangedEnvs ==
    {x \in EnvIds : \/ out_chan'[x] # out_chan[x]
                    \/ joined_entities'[x] # joined_entities[x]
                    \/ drop_notifier'[x] # drop_notifier[x]}
ChangedEnts == {e \in EntIds : joined_environments'[e] # joined_environments[e]}

\* A task that holds its mutexes in a poll can take a step, or waits in
\* broadcast on the full ring: it never waits for a mutex.
HoldersNeverWaitForAMutex ==
    /\ \A x \in EnvIds :
          EnvLocked(x) =>
              \/ ENABLED EnvStep(x)
              \/ env_task[x].pc = "broadcast" /\ BusFull(x)
    /\ \A e \in EntIds : EntLocked(e) => ENABLED EntStep(e)

C33_ConnectionWakerIsTheEnvironmentsWaker ==
    [][\A x \in EnvIds :
          Len(in_chan'[x]) > Len(in_chan[x]) =>
              /\ \E n \in Names : /\ environments[n] = x
                                  /\ env_name[x] = n
                                  /\ ~drop_notifier[x]
              /\ env_task' = [env_task EXCEPT ![x] = WatcherNotify(@)]
              /\ (env_task[x].registered => env_task'[x].notified)]_vars

\* The second Environment named X sleeps, has an unread effect in its in_chan
\* and is scheduled, while the first is deleted.
C33_Witness ==
    /\ environments["X"] = 2
    /\ env_name[1] = "X" /\ drop_notifier[1]
    /\ env_task[2].pc = "idle" /\ env_task[2].registered
    /\ env_task[2].notified
    /\ in_chan[2] # <<>>

\* A task that returned NotReady from a poll and was not notified since.
Suspended(t) == t.pc = "idle" /\ t.registered /\ ~t.notified

\* C34: no wake-up is lost: (with no shutdown and no call under way) an
\* Environment with an unread effect in its in_chan is not suspended, and an
\* Entity that is on an Environment's joined_entities list with an unread
\* effect in its receiver of that Environment is not suspended.
C34_NoLostWakeUp ==
    (~shutdown /\ InnerFree) =>
        /\ \A x \in EnvIds : in_chan[x] # <<>> => ~Suspended(env_task[x])
        /\ \A e \in EntIds, n \in Names :
              LET j == joined_environments[e][n] IN
              (/\ j.env # 0
               /\ e \in Range(joined_entities[j.env])
               /\ j.pos < Len(out_chan[j.env])) => ~Suspended(ent_task[e])

\* C35: no task completes early: a Supervisor, Environment or Entity future
\* has completed only if the shutdown trigger is pulled, and a poll that ends
\* before the pull leaves its task suspended, also the poll of an Entity that
\* has joined nothing.
C35_NoTaskCompletesBeforeShutdown ==
    /\ [](~shutdown =>
            /\ sv_task.pc # "done"
            /\ \A x \in EnvIds : env_task[x].pc # "done"
            /\ \A e \in EntIds : ent_task[e].pc # "done")
    /\ [][~shutdown =>
            /\ SvPoll => sv_task'.pc = "idle"
            /\ \A x \in EnvIds : EnvPollEnd(x) => env_task'[x].pc = "idle"
            /\ \A e \in EntIds : EntPollEnd(e) => ent_task'[e].pc = "idle"]_vars

\* Before the pull the Supervisor, an Environment and an Entity that has
\* joined nothing have each been polled and sleep on their shutdown listener.
C35_Witness ==
    /\ ~shutdown
    /\ Sleeping(sv_task)
    /\ \E x \in EnvIds : Sleeping(env_task[x]) /\ env_num[x] >= 1
    /\ \E e \in EntIds : Sleeping(ent_task[e]) /\ JoinedNames(e) = {}

\* The Environment a registration under way is at.
CallEnv == environments[Head(sv_call.names)]

KeyOf(e, x) == \E n \in Names : joined_environments[e][n].env = x

\* register_joining_entity of Entity e at Environment x has stored the reader
\* in the Entity and has not yet pushed the Entity on the list.
Registering(e, x) ==
    /\ sv_call.op = "join" /\ sv_call.stage = "push"
    /\ sv_call.entity = e /\ CallEnv = x

\* C37 (as stated): an Entity is at most once on an Environment's
\* joined_entities list, and it is on the list exactly when the Environment
\* is in the Entity's joined map or the Environment's drop notifier is pulled.
C37_ListedExactlyWhenJoinedOrDeleted ==
    \A e \in entities, x \in EnvIds :
        env_name[x] \in Names =>
            /\ Records(joined_entities[x], e) <= 1
            /\ Records(joined_entities[x], e) = 1 <=> (KeyOf(e, x) \/ drop_notifier[x])

\* C37: an Entity is at most once on an Environment's joined_entities list;
\* an Entity on the list has the Environment in its joined map unless the
\* Environment's drop notifier is pulled; and an Entity that has the
\* Environment in its joined map is on the list, but for the time its
\* registration takes between join_environment and the push.
C37_JoinGraphConsistency ==
    \A e \in EntIds, x \in EnvIds :
        /\ Records(joined_entities[x], e) <= 1
        /\ Records(joined_entities[x], e) = 1 => (KeyOf(e, x) \/ drop_notifier[x])
        /\ (KeyOf(e, x) /\ ~Registering(e, x)) => Records(joined_entities[x], e) = 1

\* The Entity stays on the list of the deleted Environment it has unsubscribed
\* from, and is once on the list of the second Environment named X, which it
\* has in its joined map.
C37_Witness ==
    /\ Records(joined_entities[1], 1) = 1
    /\ drop_notifier[1] /\ ~KeyOf(1, 1)
    /\ KeyOf(1, 2) /\ Records(joined_entities[2], 1) = 1

\* The name was given to an Environment that is deleted, and is free.
Reusable(n) ==
    /\ environments[n] = 0
    /\ \E x \in EnvIds : env_name[x] = n /\ drop_notifier[x]

\* C38: a name is free again after delete_environment: create_environment
\* with the name of a deleted Environment succeeds and registers an
\* Environment that is not the deleted one, has received nothing, has no
\* joined Entity and is not deleted; an Entity receives and counts nothing of
\* an Environment it has not registered with, so nothing of the new X reaches
\* an Entity that joined the deleted X only; and an Entity that has no X in
\* its joined map can make the join call to the new X and is accepted by it.
C38_NameIsFreeAfterDelete ==
    /\ [][/\ \A n \in Names :
                (Reusable(n) /\ environments'[n] # 0) =>
                    LET x == environments'[n] IN
                    /\ result' = Ok("create_environment")
                    /\ env_name[x] = "-" /\ env_name'[x] = n
                    /\ ~drop_notifier'[x]
                    /\ env_num'[x] = 0 /\ submitted'[x] = 0
                    /\ in_chan'[x] = <<>> /\ out_chan'[x] = <<>>
                    /\ joined_entities'[x] = <<>>
                    /\ \A e \in EntIds, m \in Names :
                          joined_environments'[e][m].env # x
          /\ (/\ sv_call.op = "join" /\ sv_call.stage = "join"
              /\ sv_call' # sv_call
              /\ ~HasJoined(sv_call.entity, Head(sv_call.names))) =>
                    /\ sv_call'.stage = "push"
                    /\ joined_environments'[sv_call.entity][Head(sv_call.names)].env
                           = CallEnv]_vars
    /\ [](\A e \in EntIds :
            /\ \A x \in EnvIds :
                  (Records(joined_entities[x], e) = 0 /\ ~Registering(e, x)) =>
                      received[e][x] = <<>>
            /\ ent_num[e] <= SumOver([x \in EnvIds |-> Len(received[e][x])], EnvIds)
            /\ \A n \in Names :
                  (InnerFree /\ e \in entities /\ environments[n] # 0) =>
                      ENABLED JoinEnvironments(e, <<n>>))

\* The Entity received an effect of the first X, unsubscribed from it when it
\* was deleted, joined the second X and has received and counted an effect of
\* it as well.
C38_Witness ==
    /\ drop_notifier[1] /\ environments["X"] = 2
    /\ received[1][1] = <<1>> /\ ~KeyOf(1, 1)
    /\ KeyOf(1, 2) /\ received[1][2] = <<1>>
    /\ env_num[2] = 1 /\ ent_num[1] = 2

====
